---- MODULE Spec2Model ----
(***************************************************************************)
(* Model of tensorflow_datasets/image/imagenet2012_corrupted.py:           *)
(* the Imagenet2012Corrupted builder, its 60 builder configurations, and   *)
(* the generator _generate_examples_validation, which seeds the process-   *)
(* wide numpy and cv2 random number generators, corrupts every validation  *)
(* record, and puts the numpy state back when the base stream runs out.    *)
(*                                                                         *)
(* A generator object ("pass") is modelled by its position pc[p]:          *)
(*   "none"    not created                                                 *)
(*   "created" the generator function was called, no code has run yet      *)
(*   "open"    suspended at the yield of line 185                          *)
(*   "done"    ran off the end of the function (line 187 executed)         *)
(*   "closed"  closed by the consumer (GeneratorExit raised at the yield)  *)
(*   "failed"  an exception left the generator                             *)
(***************************************************************************)
EXTENDS Integers, Sequences, FiniteSets, TLC

VARIABLES
  builder_config,  \* self.builder_config of the one builder instance
  archive,         \* the base validation stream: a sequence of raw records
  np_state,        \* process-wide numpy RNG state (np.random)
  cv2_seed,        \* process-wide cv2 RNG seed
  pc,              \* position of each generator object
  idx,             \* records each generator has taken from the base stream
  numpy_st0,       \* the generator's local numpy_st0 (line 173)
  out,             \* the examples each generator has yielded, in order
  calls,           \* the corruption calls each generator has made, in order
  err              \* the exception that left each generator, if any

vars == <<builder_config, archive, np_state, cv2_seed, pc, idx, numpy_st0,
          out, calls, err>>

----------------------------------------------------------------------------
(* Bounds of the model.                                                    *)

\* Longest base stream.
MaxRecords == 2
\* The caller draws from np.random only while the position of the stream is
\* below MaxCallerPos: after the first draw of a pass it can still add one.
MaxCallerPos == 2

\* The generator objects created on the builder: A first, then B.
Passes == {"A", "B"}
Earlier(p) == IF p = "B" THEN {"A"} ELSE {}

----------------------------------------------------------------------------
(* Random number generators.  A numpy state is the seed it was started     *)
(* from and the number of draws made since: two states are equal exactly   *)
(* when they produce the same stream.                                      *)

NpSeed == 135
Cv2Seed == 357

\* np.random.seed(s)
np_random_seed_skipped(s) == np_state
np_random_seed(s) == [seed |-> s, pos |-> 0]

\* np.random.get_state()
np_random_get_state_after_seed == np_random_seed(NpSeed)
np_random_get_state == np_state

\* np.random.set_state(st)
np_random_set_state_skipped(st) == np_state
np_random_set_state(st) == st

\* cv2.setRNGSeed(s)
setRNGSeed_skipped(s) == cv2_seed
setRNGSeed(s) == s

\* n draws from a numpy state
Draw(st, n) == [st EXCEPT !.pos = @ + n]

\* numpy_st0 of a generator that has not run line 173
Unset == [seed |-> -1, pos |-> 0]

\* States the process may be in before any pass: a stream of another seed,
\* and a caller that seeded with the very seed the pass uses; a cv2 seed
\* that is not the one the pass sets.
InitNpStates == {[seed |-> 0, pos |-> 0], [seed |-> NpSeed, pos |-> 0]}
InitCv2Seeds == {0}

----------------------------------------------------------------------------
(* Configurations.                                                         *)

TYPE_LIST ==
  << "gaussian_noise", "shot_noise", "impulse_noise", "defocus_blur",
     "frosted_glass_blur", "zoom_blur", "fog", "brightness", "contrast",
     "elastic", "pixelate", "jpeg_compression" >>

\* Imagenet2012CorruptedConfig.__init__: stores its arguments, checks nothing.
Imagenet2012CorruptedConfig(name, corruption_type, severity) ==
  [name |-> name, corruption_type |-> corruption_type, severity |-> severity]

\* range(1, 6)
severity_range == <<1, 2, 3, 4, 5>>

\* name_str = each_corruption + '_' + str(each_severity)
name_str_no_severity(each_corruption, each_severity) == each_corruption
name_str(each_corruption, each_severity) ==
  each_corruption \o "_" \o ToString(each_severity)

\* The inner loop of _make_builder_configs for one corruption type.
ConfigsOfType(each_corruption) ==
  [i \in 1..Len(severity_range) |->
     Imagenet2012CorruptedConfig(
       name_str(each_corruption, severity_range[i]),
       each_corruption, severity_range[i])]

\* The outer loop: the configurations of the first n types, appended in order.
RECURSIVE ConfigsUpTo(_)
ConfigsUpTo(n) ==
  IF n = 0 THEN << >>
  ELSE ConfigsUpTo(n - 1) \o ConfigsOfType(TYPE_LIST[n])

_make_builder_configs == ConfigsUpTo(Len(TYPE_LIST))

BUILDER_CONFIGS == _make_builder_configs

\* No builder has been constructed.
NoConfig == [name |-> "None", corruption_type |-> "None", severity |-> 0]

\* Configurations a caller may construct directly instead of selecting one
\* of BUILDER_CONFIGS: an unknown type, and severities on either side of 1..5.
CustomArgs == { <<"unknown", 1>>, <<"fog", 0>>, <<"fog", 6>> }

\* Built-in configurations used where every interleaving of two passes is
\* explored: a noise type and a photometric type, lowest and highest severity.
SampleNames == {"gaussian_noise_1", "brightness_5"}

----------------------------------------------------------------------------
(* The corruption library (tensorflow_datasets.image.corruptions).         *)

\* The dict literal of _get_corrupted_example: name -> function.
DispatchTableSwapped ==
  [ gaussian_noise     |-> "gaussian_noise",
    shot_noise         |-> "shot_noise",
    impulse_noise      |-> "impulse_noise",
    defocus_blur       |-> "defocus_blur",
    frosted_glass_blur |-> "frosted_glass_blur",
    zoom_blur          |-> "zoom_blur",
    fog                |-> "fog",
    brightness         |-> "contrast",
    contrast           |-> "brightness",
    elastic            |-> "elastic",
    pixelate           |-> "pixelate",
    jpeg_compression   |-> "jpeg_compression" ]
DispatchTable ==
  [ gaussian_noise     |-> "gaussian_noise",
    shot_noise         |-> "shot_noise",
    impulse_noise      |-> "impulse_noise",
    defocus_blur       |-> "defocus_blur",
    frosted_glass_blur |-> "frosted_glass_blur",
    zoom_blur          |-> "zoom_blur",
    fog                |-> "fog",
    brightness         |-> "brightness",
    contrast           |-> "contrast",
    elastic            |-> "elastic",
    pixelate           |-> "pixelate",
    jpeg_compression   |-> "jpeg_compression" ]

\* The corruptions that inject pixel-level stochastic noise.
StochasticFns == {"gaussian_noise", "shot_noise", "impulse_noise"}

\* Draws one call of a corruption function makes from np.random.
NpDraws(fn) == IF fn \in StochasticFns THEN 1 ELSE 0

\* The pixel array a corruption function returns: a function of its
\* arguments and of the process-wide RNG states at the call, nothing else.
CorruptedImage(fn, x, severity, np, cv) ==
  [fn |-> fn, x |-> x, severity |-> severity, np |-> np, cv |-> cv]

\* Whether a call returns (TRUE) or raises (FALSE).  The library is defined
\* for severity 1..5 only; outside it either may happen.
CallOutcomes(severity) ==
  IF severity \in 1..5 THEN {TRUE} ELSE BOOLEAN

----------------------------------------------------------------------------
(* The base validation stream (Imagenet2012._generate_examples_validation) *)
(* and the decoder.                                                        *)

\* Encoded image bytes: a JPEG of some pixels, or bytes that are no image.
Jpeg(px) == [fmt |-> "jpeg", px |-> px]
Junk == [fmt |-> "junk", px |-> 0]

RawExample(file_name, image, label) ==
  [file_name |-> file_name, image |-> image, label |-> label]

RecordPool ==
  << RawExample("a.JPEG", Jpeg(1), 10),
     RawExample("b.JPEG", Jpeg(2), 20),
     RawExample("c.JPEG", Junk, 30) >>

\* Streams of at most MaxRecords records of the pool, file names distinct.
PoolIdx == 1..Len(RecordPool)
IdxSeqs ==
  UNION { { s \in [1..n -> PoolIdx] :
              \A i, j \in 1..n : i # j => s[i] # s[j] } : n \in 0..MaxRecords }
Archives == { [i \in DOMAIN s |-> RecordPool[s[i]]] : s \in IdxSeqs }

\* tf.image.decode_jpeg(bytes, channels=3) succeeds
DecodableAlways(bytes) == TRUE
Decodable(bytes) == bytes.fmt = "jpeg"

\* tf.image.decode_jpeg(bytes, channels=3): the H x W x 3 pixel array
decode_jpeg(bytes) == [pixels |-> bytes.px, channels |-> 3]

----------------------------------------------------------------------------
(* Steps of the generator body, lines 172-187.                             *)

\* example['image'] = ...; yield example
YieldedLabelLost(example, image) ==
  [file_name |-> example.file_name, image |-> image, label |-> 0]
Yielded(example, image) == [example EXCEPT !.image = image]

\* The record the for loop of line 179 takes after i records were taken.
NextRecordReadAhead(i) == IF i + 2 <= Len(archive) THEN i + 2 ELSE i + 1
NextRecord(i) == i + 1

Open(p) == pc[p] = "open"
Finished(p) == pc[p] \in {"done", "closed", "failed"}

\* The exception leaves the generator: nothing after the raising line runs.
Raise(p, e, st0, np, cv, i, cs) ==
  /\ pc' = [pc EXCEPT ![p] = "failed"]
  /\ err' = [err EXCEPT ![p] = e]
  /\ numpy_st0' = [numpy_st0 EXCEPT ![p] = st0]
  /\ np_state' = np
  /\ cv2_seed' = cv
  /\ idx' = [idx EXCEPT ![p] = i]
  /\ calls' = [calls EXCEPT ![p] = cs]
  /\ UNCHANGED <<out>>

\* One next() on generator p: from the function's start (lines 173-177) or
\* from the yield, round the loop to the next yield, to an exception, or off
\* the end of the loop through line 187.
Pull(p) ==
  /\ pc[p] \in {"created", "open"}
  /\ UNCHANGED <<builder_config, archive>>
  /\ LET first == pc[p] = "created"
         st0 == IF first THEN np_random_get_state ELSE numpy_st0[p]
         np1 == IF first THEN np_random_seed(NpSeed) ELSE np_state
         cv1 == IF first THEN setRNGSeed(Cv2Seed) ELSE cv2_seed
     IN
     IF idx[p] >= Len(archive)
     THEN \* the base stream is exhausted: line 187
          /\ np_state' = np_random_set_state(st0)
          /\ cv2_seed' = cv1
          /\ numpy_st0' = [numpy_st0 EXCEPT ![p] = st0]
          /\ pc' = [pc EXCEPT ![p] = "done"]
          /\ UNCHANGED <<idx, out, calls, err>>
     ELSE LET i == NextRecord(idx[p])
              example == archive[i]
              corruption_type == builder_config.corruption_type
              severity == builder_config.severity
          IN
          IF ~Decodable(example.image)
          THEN Raise(p, "DecodeError", st0, np1, cv1, i, calls[p])
          ELSE IF corruption_type \notin DOMAIN DispatchTable
          THEN Raise(p, "KeyError", st0, np1, cv1, i, calls[p])
          ELSE LET image_np == decode_jpeg(example.image)
                   fn == DispatchTable[corruption_type]
                   call == [fn |-> fn, x |-> image_np, severity |-> severity]
                   cs == Append(calls[p], call)
                   np2 == Draw(np1, NpDraws(fn))
               IN \E returns \in CallOutcomes(severity) :
                    IF ~returns
                    THEN Raise(p, "CorruptionError", st0, np2, cv1, i, cs)
                    ELSE /\ out' = [out EXCEPT ![p] = Append(@,
                                      Yielded(example,
                                        CorruptedImage(fn, image_np, severity,
                                                       np1, cv1)))]
                         /\ calls' = [calls EXCEPT ![p] = cs]
                         /\ np_state' = np2
                         /\ cv2_seed' = cv1
                         /\ numpy_st0' = [numpy_st0 EXCEPT ![p] = st0]
                         /\ idx' = [idx EXCEPT ![p] = i]
                         /\ pc' = [pc EXCEPT ![p] = "open"]
                         /\ UNCHANGED err

----------------------------------------------------------------------------
(* Operations of the caller.                                               *)

\* The builder is constructed with one of BUILDER_CONFIGS.
SelectConfig(names) ==
  /\ builder_config = NoConfig
  /\ \E i \in 1..Len(BUILDER_CONFIGS) :
       /\ BUILDER_CONFIGS[i].name \in names
       /\ builder_config' = BUILDER_CONFIGS[i]
  /\ UNCHANGED <<archive, np_state, cv2_seed, pc, idx, numpy_st0, out, calls,
                 err>>

\* The builder is constructed with a configuration the caller built.
CustomConfig ==
  /\ builder_config = NoConfig
  /\ \E a \in CustomArgs :
       builder_config' = Imagenet2012CorruptedConfig("custom", a[1], a[2])
  /\ UNCHANGED <<archive, np_state, cv2_seed, pc, idx, numpy_st0, out, calls,
                 err>>

\* _generate_examples_validation(archive, labels) is called: a generator
\* object is made and none of the function's code runs.
CreateEager(p) ==
  /\ builder_config # NoConfig
  /\ pc[p] = "none"
  /\ \A q \in Earlier(p) : pc[q] # "none"
  /\ pc' = [pc EXCEPT ![p] = "created"]
  /\ numpy_st0' = [numpy_st0 EXCEPT ![p] = np_state]
  /\ np_state' = [seed |-> NpSeed, pos |-> 0]
  /\ cv2_seed' = Cv2Seed
  /\ UNCHANGED <<builder_config, archive, idx, out, calls, err>>
Create(p) ==
  /\ builder_config # NoConfig
  /\ pc[p] = "none"
  /\ \A q \in Earlier(p) : pc[q] # "none"
  /\ pc' = [pc EXCEPT ![p] = "created"]
  /\ UNCHANGED <<builder_config, archive, np_state, cv2_seed, idx, numpy_st0,
                 out, calls, err>>

\* The consumer stops before exhaustion: generator.close(), or the object is
\* dropped.  GeneratorExit is raised at the yield; the function has no
\* try/finally, so no line of it runs.
Close(p) ==
  /\ pc[p] \in {"created", "open"}
  /\ pc' = [pc EXCEPT ![p] = "closed"]
  /\ UNCHANGED <<builder_config, archive, np_state, cv2_seed, idx, numpy_st0,
                 out, calls, err>>

\* The caller draws from np.random.
CallerDraw ==
  /\ np_state.pos < MaxCallerPos
  /\ np_state' = Draw(np_state, 1)
  /\ UNCHANGED <<builder_config, archive, cv2_seed, pc, idx, numpy_st0, out,
                 calls, err>>

----------------------------------------------------------------------------
(* Specifications.                                                         *)

Init ==
  /\ builder_config = NoConfig
  /\ archive \in Archives
  /\ np_state \in InitNpStates
  /\ cv2_seed \in InitCv2Seeds
  /\ pc = [p \in Passes |-> "none"]
  /\ idx = [p \in Passes |-> 0]
  /\ numpy_st0 = [p \in Passes |-> Unset]
  /\ out = [p \in Passes |-> << >>]
  /\ calls = [p \in Passes |-> << >>]
  /\ err = [p \in Passes |-> "none"]

\* Every interleaving of the passes and the caller.
Next ==
  \/ SelectConfig(SampleNames)
  \/ CustomConfig
  \/ \E p \in Passes : Create(p)
  \/ \E p \in Passes : Pull(p)
  \/ \E p \in Passes : Close(p)
  \/ CallerDraw

Spec == Init /\ [][Next]_vars

\* One pass at a time, and nothing else touches the RNG while a pass is
\* open; every configuration.
NoneOpen == \A q \in Passes : ~Open(q)
AllNames == { BUILDER_CONFIGS[i].name : i \in 1..Len(BUILDER_CONFIGS) }

SeqPull(p) == (\A q \in Passes \ {p} : ~Open(q)) /\ Pull(p)
SeqCallerDraw == NoneOpen /\ CallerDraw

NextSeq ==
  \/ SelectConfig(AllNames)
  \/ CustomConfig
  \/ \E p \in Passes : Create(p)
  \/ \E p \in Passes : SeqPull(p)
  \/ \E p \in Passes : Close(p)
  \/ SeqCallerDraw

SpecSeq == Init /\ [][NextSeq]_vars

----------------------------------------------------------------------------
(* Properties.                                                             *)

TypeSet == { TYPE_LIST[i] : i \in 1..Len(TYPE_LIST) }
BuiltIn == { BUILDER_CONFIGS[i] : i \in 1..Len(BUILDER_CONFIGS) }
AllDecodable == \A i \in 1..Len(archive) : archive[i].image.fmt = "jpeg"

\* C1: RNG isolation on a full pass.  The state a pass captures is the
\* general-purpose RNG state at its first pull, it keeps that capture for as
\* long as it is open, and the step that exhausts the pass leaves the
\* general-purpose RNG in exactly the captured state, however many draws
\* the corruption calls made.
C1_RngIsolationOnFullPass ==
  [][\A p \in Passes :
       /\ (pc[p] = "created" /\ pc'[p] \in {"open", "done", "failed"}
             => numpy_st0'[p] = np_state)
       /\ (pc[p] = "open" => numpy_st0'[p] = numpy_st0[p])
       /\ (pc[p] \in {"created", "open"} /\ pc'[p] = "done"
             => np_state' = numpy_st0'[p])]_vars

\* A pass over two records has been exhausted, its corruption calls drew
\* from the RNG, and the RNG is in the captured state, which is not a state
\* of the seed-135 stream.
C1_Witness ==
  \E p \in Passes :
    /\ pc[p] = "done"
    /\ Len(calls[p]) = 2
    /\ \A i \in 1..2 : calls[p][i].fn \in StochasticFns
    /\ numpy_st0[p].seed # NpSeed
    /\ np_state = numpy_st0[p]

\* C2: guaranteed release on early stop.  When the consumer closes a pass
\* from which it has pulled at least one example, the general-purpose RNG is
\* put back to the state captured at the start of the pass.
C2_RestoredOnEarlyStop ==
  [][\A p \in Passes :
       pc[p] = "open" /\ pc'[p] = "closed" => np_state' = numpy_st0[p]]_vars

\* C3: determinism across passes.  Two passes over the same base stream with
\* the same configuration, each run to exhaustion with nothing else using
\* the RNG while it is open, have yielded the same sequence of examples,
\* whatever the global RNG states were before each.
C3_DeterministicAcrossPasses ==
  (pc["A"] = "done" /\ pc["B"] = "done") => out["A"] = out["B"]

\* Two exhausted passes over two records began from different captured
\* general-purpose states and yielded the same two examples.
C3_Witness ==
  /\ pc["A"] = "done" /\ pc["B"] = "done"
  /\ Len(out["A"]) = 2
  /\ builder_config.corruption_type \in StochasticFns
  /\ numpy_st0["A"] # numpy_st0["B"]
  /\ out["A"] = out["B"]

\* C4: restoration on error.  When a failure raised while decoding a record
\* leaves the pass, the general-purpose RNG is in the state the pass captured
\* at its start.
C4_RestoredOnError ==
  [][\A p \in Passes :
       /\ pc[p] \in {"created", "open"}
       /\ pc'[p] = "failed"
       /\ err'[p] = "DecodeError"
       => np_state' = numpy_st0'[p]]_vars

\* C5: dispatch is total and name-faithful on the configured set.  Every
\* name of TYPE_LIST is a key of the dispatch table and maps to the
\* corruption of that name; under a built-in configuration no pass fails in
\* the lookup or in the call, and each yielded example comes from exactly
\* one call, of the function named by the configuration's type, with the
\* decoded image of its record and the configuration's severity.
C5_DispatchTotalAndFaithful ==
  /\ \A t \in TypeSet : t \in DOMAIN DispatchTable /\ DispatchTable[t] = t
  /\ builder_config \in BuiltIn =>
       \A p \in Passes :
         /\ err[p] \in {"none", "DecodeError"}
         /\ Len(calls[p]) = Len(out[p])
         /\ \A i \in 1..Len(calls[p]) :
              calls[p][i] =
                [fn |-> builder_config.corruption_type,
                 x |-> [pixels |-> archive[i].image.px, channels |-> 3],
                 severity |-> builder_config.severity]

\* Under the last built-in configuration a pass over two records has made
\* its two calls.
C5_Witness ==
  /\ builder_config = BUILDER_CONFIGS[60]
  /\ pc["A"] = "done"
  /\ Len(calls["A"]) = 2
  /\ calls["A"][2].fn = "jpeg_compression"
  /\ calls["A"][2].severity = 5

\* C6: an unknown corruption type is rejected at construction.  No builder
\* ever holds a configuration whose corruption_type is outside TYPE_LIST,
\* and no pass of such a configuration captures or seeds the RNG.
C6_UnknownTypeRejected ==
  builder_config # NoConfig =>
    /\ builder_config.corruption_type \in TypeSet
    /\ \A p \in Passes :
         builder_config.corruption_type \notin TypeSet =>
           numpy_st0[p] = Unset

\* C7: an out-of-range severity is rejected.  No builder ever holds a
\* configuration whose severity is outside 1..5, and no corruption function
\* is called with such a severity.
C7_SeverityInRange ==
  /\ builder_config # NoConfig => builder_config.severity \in 1..5
  /\ \A p \in Passes :
       \A i \in 1..Len(calls[p]) : calls[p][i].severity \in 1..5

\* C8: a decode failure aborts the pass.  A pass that has taken a record
\* whose bytes do not decode has failed with DecodeError at that record, the
\* k-th; it has yielded exactly the examples of the k-1 records before it,
\* and every example a pass has yielded is that of a decodable record at the
\* same position of the base stream.
C8_DecodeFailureAborts ==
  \A p \in Passes :
    /\ \A k \in 1..idx[p] :
         archive[k].image.fmt # "jpeg" =>
           /\ pc[p] = "failed"
           /\ err[p] = "DecodeError"
           /\ k = idx[p]
           /\ Len(out[p]) = k - 1
    /\ err[p] = "DecodeError" =>
         /\ idx[p] >= 1
         /\ archive[idx[p]].image.fmt # "jpeg"
    /\ \A i \in 1..Len(out[p]) :
         /\ archive[i].image.fmt = "jpeg"
         /\ out[p][i].file_name = archive[i].file_name

\* A pass failed at its second record after yielding the first.
C8_Witness ==
  \E p \in Passes :
    /\ err[p] = "DecodeError"
    /\ idx[p] = 2
    /\ Len(out[p]) = 1
    /\ out[p][1].file_name = archive[1].file_name

\* C9: pass-through and one-to-one output.  The i-th example a pass has
\* yielded has the label and file_name of the i-th raw record and no field
\* but file_name, image and label; its image is the output of the pass's
\* i-th corruption call, made on the decoded image of that record; and an
\* exhausted pass over decodable records has yielded one example per record.
C9_PassThroughOneToOne ==
  \A p \in Passes :
    /\ \A i \in 1..Len(out[p]) :
         /\ DOMAIN out[p][i] = {"file_name", "image", "label"}
         /\ out[p][i].file_name = archive[i].file_name
         /\ out[p][i].label = archive[i].label
         /\ out[p][i].image.fn = calls[p][i].fn
         /\ out[p][i].image.severity = calls[p][i].severity
         /\ out[p][i].image.x = calls[p][i].x
         /\ out[p][i].image.x.pixels = archive[i].image.px
    /\ (pc[p] = "done" /\ AllDecodable) => Len(out[p]) = Len(archive)

\* A pass over two records with different labels is exhausted and has
\* yielded both.
C9_Witness ==
  \E p \in Passes :
    /\ pc[p] = "done"
    /\ Len(archive) = 2
    /\ Len(out[p]) = 2
    /\ out[p][1].label # out[p][2].label
    /\ out[p][2].label = archive[2].label

\* The list _make_builder_configs returns: 60 configurations, one for every
\* pair of a type of TYPE_LIST and a severity of 1..5, each named
\* <type>_<severity>, the 60 names distinct.
BuilderConfigsComplete ==
  /\ Len(BUILDER_CONFIGS) = 60
  /\ { <<c.corruption_type, c.severity>> : c \in BuiltIn } = TypeSet \X (1..5)
  /\ Cardinality(BuiltIn) = 60
  /\ Cardinality({ c.name : c \in BuiltIn }) = 60
  /\ \A c \in BuiltIn :
       c.name = c.corruption_type \o "_" \o ToString(c.severity)

\* C10: the configuration set.  _make_builder_configs produces exactly 60
\* configurations, one per (type, severity) pair and none twice, named
\* <type>_<severity> with pairwise distinct names; so the name of the
\* configuration a builder was constructed with determines its pair.
C10_ConfigurationSet ==
  /\ BuilderConfigsComplete
  /\ \A c \in BuiltIn :
       c.name = builder_config.name
         => /\ c.corruption_type = builder_config.corruption_type
            /\ c.severity = builder_config.severity

\* A builder was constructed with the 60th configuration.
C10_Witness ==
  /\ builder_config.name = "jpeg_compression_5"
  /\ builder_config = BUILDER_CONFIGS[60]
  /\ builder_config.corruption_type = "jpeg_compression"
  /\ builder_config.severity = 5

\* C11: seed-once ordering.  The first pull of a pass captures the
\* general-purpose state it finds, then sets the general-purpose RNG to seed
\* 135 and the image-library RNG to seed 357, before the first record is
\* decoded or corrupted: the first corruption call runs on the fresh seeds,
\* and a failure on the first record leaves the seed-135 stream behind.  A
\* later pull of the same pass keeps the capture and applies neither seed
\* again: its corruption call runs on the RNG states as the pull found them.
C11_SeedOnceOrdering ==
  [][\A p \in Passes :
       /\ (pc[p] = "created" /\ pc'[p] \in {"open", "done", "failed"}) =>
            /\ numpy_st0'[p] = np_state
            /\ cv2_seed' = Cv2Seed
            /\ pc'[p] = "open" =>
                 /\ out'[p][1].image.np = [seed |-> NpSeed, pos |-> 0]
                 /\ out'[p][1].image.cv = Cv2Seed
            /\ pc'[p] = "failed" => np_state'.seed = NpSeed
       /\ (pc[p] = "open" /\ idx'[p] # idx[p]) =>
            /\ numpy_st0'[p] = numpy_st0[p]
            /\ cv2_seed' = cv2_seed
            /\ pc'[p] = "open" =>
                 /\ out'[p][Len(out'[p])].image.np = np_state
                 /\ out'[p][Len(out'[p])].image.cv = cv2_seed]_vars

\* A pass that began from a state of another seed has yielded two examples:
\* the first corrupted on the fresh seed-135 state, the second on that state
\* advanced by the first call's draw.
C11_Witness ==
  \E p \in Passes :
    /\ pc[p] = "open"
    /\ Len(out[p]) = 2
    /\ numpy_st0[p].seed # NpSeed
    /\ calls[p][1].fn \in StochasticFns
    /\ out[p][1].image.np = [seed |-> NpSeed, pos |-> 0]
    /\ out[p][2].image.np = [seed |-> NpSeed, pos |-> 1]
    /\ out[p][2].image.cv = Cv2Seed

\* C12: no concurrent re-entry of the seed scope.  In every reachable state
\* at most one pass is between its seed and its restore: while a pass is
\* open, no second pass has performed its capture-and-seed step.
C12_NoConcurrentReentry ==
  Cardinality({ p \in Passes : pc[p] = "open" }) <= 1

C14_PullBasedLaziness ==
  [][\A p \in Passes :
       /\ (pc'[p] = "open" /\
             (idx'[p] # idx[p] \/ out'[p] # out[p] \/ calls'[p] # calls[p])) =>
            /\ idx'[p] = idx[p] + 1
            /\ Len(calls'[p]) = Len(calls[p]) + 1
            /\ Len(out'[p]) = Len(out[p]) + 1
            /\ out'[p][Len(out'[p])].file_name = archive[idx'[p]].file_name
       /\ pc'[p] = "open" =>
            /\ idx'[p] = Len(out'[p])
            /\ idx'[p] = Len(calls'[p])
       /\ (pc[p] \in {"created", "open"} /\ pc'[p] = "done") =>
            /\ idx[p] = Len(archive)
            /\ idx'[p] = idx[p]
            /\ out'[p] = out[p]
            /\ calls'[p] = calls[p]]_vars

\* A pass over two records is suspended at its first yield: one record
\* taken, one call made, one example yielded, one record not yet read.
C14_Witness ==
  \E p \in Passes :
    /\ pc[p] = "open"
    /\ Len(archive) = 2
    /\ idx[p] = 1
    /\ Len(calls[p]) = 1
    /\ Len(out[p]) = 1

\* C15: lazy acquisition.  Creating a pass changes neither the general-
\* purpose RNG state nor the image-library seed and captures nothing; a pass
\* that has not been pulled holds no capture, and closing it unpulled changes
\* no RNG; the capture is taken by the first pull, of the general-purpose
\* state at that moment, and that capture is the state the exhausting step
\* restores.
C15_LazyAcquisition ==
  [][\A p \in Passes :
       /\ (pc[p] = "none" /\ pc'[p] = "created") =>
            /\ np_state' = np_state
            /\ cv2_seed' = cv2_seed
            /\ numpy_st0'[p] = Unset
       /\ pc'[p] = "created" => numpy_st0'[p] = Unset
       /\ (pc[p] = "created" /\ pc'[p] = "closed") =>
            /\ np_state' = np_state
            /\ cv2_seed' = cv2_seed
            /\ numpy_st0'[p] = Unset
       /\ (pc[p] = "created" /\ pc'[p] \in {"open", "done", "failed"}) =>
            /\ numpy_st0'[p] = np_state
            /\ cv2_seed' = Cv2Seed
       /\ (pc[p] = "open" /\ pc'[p] = "done") =>
            np_state' = numpy_st0[p]]_vars

\* Pass A was created and never pulled; pass B, created after it, has run to
\* exhaustion and restored a state of another seed than 135: creating A
\* captured nothing and seeded nothing.
C15_Witness ==
  /\ pc["A"] = "created"
  /\ numpy_st0["A"] = Unset
  /\ pc["B"] = "done"
  /\ Len(out["B"]) >= 1
  /\ np_state = numpy_st0["B"]
  /\ np_state.seed # NpSeed

\* C16: the seeded state is exposed between pulls.  In every state in which
\* a pass is between its first yield and its exhaustion, the process-wide
\* general-purpose RNG is in the seed-135 stream (seed 135 advanced by the
\* draws made since), not in the state the pass captured from the caller.
C16_SeededStateExposed ==
  \A p \in Passes :
    pc[p] = "open" =>
      /\ np_state.seed = NpSeed
      /\ (numpy_st0[p].seed # NpSeed => np_state # numpy_st0[p])

\* C17: nested pass transparency for the general-purpose RNG.  A pass q
\* whose first pull comes while another pass p is open captures p's seeded
\* state as that pull finds it, keeps that capture while it is open, and
\* leaves p's capture, position and output alone; when q is exhausted while
\* p is still open, the general-purpose RNG is back in the state q captured,
\* so p goes on as if q had never run; and whenever a pass is exhausted,
\* first or last, the general-purpose RNG is put to that pass's own capture,
\* so that if p is exhausted while q is open, the exhaustion of q leaves p's
\* seeded mid-pass state that q captured.
C17_NestedPassTransparency ==
  [][\A p, q \in Passes :
       p # q =>
         /\ (pc[p] = "open" /\ pc[q] = "created"
               /\ pc'[q] \in {"open", "done", "failed"}) =>
              /\ numpy_st0'[q] = np_state
              /\ numpy_st0'[q].seed = NpSeed
              /\ numpy_st0'[p] = numpy_st0[p]
         /\ pc[q] = "open" => numpy_st0'[q] = numpy_st0[q]
         /\ (pc[p] = "open" /\ pc[q] \in {"created", "open"}
               /\ pc'[q] = "done") =>
              /\ np_state' = numpy_st0'[q]
              /\ pc'[p] = "open"
              /\ numpy_st0'[p] = numpy_st0[p]
              /\ idx'[p] = idx[p]
              /\ out'[p] = out[p]
         /\ (pc[p] \in {"created", "open"} /\ pc'[p] = "done") =>
              np_state' = numpy_st0'[p]
         /\ (pc[p] = "done" /\ pc[q] = "open" /\ pc'[q] = "done") =>
              np_state' = numpy_st0[q]]_vars

\* Pass B captured the seeded state of pass A and was exhausted; A, which
\* yielded two examples, was exhausted after it and the general-purpose RNG
\* is in A's own capture, a state of another seed than 135.
C17_Witness ==
  /\ pc["A"] = "done"
  /\ pc["B"] = "done"
  /\ Len(out["A"]) = 2
  /\ Len(out["B"]) = 2
  /\ numpy_st0["A"].seed # NpSeed
  /\ numpy_st0["B"].seed = NpSeed
  /\ np_state = numpy_st0["A"]

\* Pass A was exhausted while pass B, which had captured A's seeded state,
\* was open; after both are exhausted the general-purpose RNG is in the
\* seed-135 state B captured, not in the state before A began.
C17_LeakWitness ==
  /\ pc["A"] = "done"
  /\ pc["B"] = "done"
  /\ Len(out["B"]) = 2
  /\ numpy_st0["A"].seed # NpSeed
  /\ numpy_st0["B"].seed = NpSeed
  /\ np_state = numpy_st0["B"]

====
